---- MODULE Spec2Model ----
(***************************************************************************)
(* The LDAP administration facade of ucsc_apis/admin/ldap.py over a remote *)
(* managed-object tree.  The state is the remote tree, the handle's        *)
(* uncommitted requests, the external locale registry and the outcome of   *)
(* the last call.  Every public function of the module is one action.      *)
(***************************************************************************)
EXTENDS Naturals, Sequences, FiniteSets, TLC

\* Largest number of managed objects below ldap-ext the remote tree holds.
MaxObjs == 3

\* Name strings the callers use.
ProviderNames == {"a", "b"}
LocaleNames == {"l"}
GroupMapNames == {"g"}
RoleNames == {"r"}
ProviderGroupNames == {"pg"}

\* Python's None as a property or key value, and the empty query result.
NoneVal == "None"
None == [cls |-> "None"]
EmptyKw == <<>>

VARIABLES tree, to_commit, locales, last, callers

vars == <<tree, to_commit, locales, last, callers>>

\* Callers that share the one handle and run a delete step by step.
Callers == {"c1", "c2"}

ucsc_base_dn == "org-root/deviceprofile-default"

(***************************************************************************)
(* Managed objects: class, parent dn, relative name, dn, properties.       *)
(***************************************************************************)
Mo(cls, parent_dn, rn, props) ==
    [cls |-> cls, parent |-> parent_dn, rn |-> rn,
     dn |-> parent_dn \o "/" \o rn, props |-> props]

\* mo.set_prop_multiple(**kwargs): later values override same-named ones.
set_prop_multiple(mo, kwargs) ==
    [mo EXCEPT !.props =
        [k \in DOMAIN mo.props \cup DOMAIN kwargs |->
            IF k \in DOMAIN kwargs THEN kwargs[k] ELSE mo.props[k]]]

\* mo.check_prop_match(**kwargs): every supplied property equals the actual one.
check_prop_match(mo, kwargs) ==
    \A k \in DOMAIN kwargs : k \in DOMAIN mo.props /\ mo.props[k] = kwargs[k]

AaaLdapProvider(parent_dn, name, a) ==
    Mo("AaaLdapProvider", parent_dn, "provider-" \o name,
       [name |-> name, order |-> a.order, rootdn |-> a.rootdn,
        basedn |-> a.basedn, port |-> a.port, enable_ssl |-> a.enable_ssl,
        filter |-> a.filter, attribute |-> a.attribute, key |-> a.key,
        timeout |-> a.timeout, vendor |-> a.vendor, retries |-> a.retries,
        descr |-> a.descr])

AaaLdapGroupRule(parent_dn) ==
    Mo("AaaLdapGroupRule", parent_dn, "ldapgroup-rule",
       [authorization |-> NoneVal, traversal |-> NoneVal,
        target_attr |-> NoneVal, name |-> NoneVal, descr |-> NoneVal])

AaaLdapGroup(parent_dn, name, descr) ==
    Mo("AaaLdapGroup", parent_dn, "ldapgroup-" \o name,
       [name |-> name, descr |-> descr])

AaaUserRole(parent_dn, name, descr) ==
    Mo("AaaUserRole", parent_dn, "role-" \o name,
       [name |-> name, descr |-> descr])

AaaUserLocale(parent_dn, name, descr) ==
    Mo("AaaUserLocale", parent_dn, "locale-" \o name,
       [name |-> name, descr |-> descr])

AaaProviderGroup(parent_dn, name, descr) ==
    Mo("AaaProviderGroup", parent_dn, "providergroup-" \o name,
       [name |-> name, descr |-> descr])

AaaProviderRef(parent_dn, name, order, descr) ==
    Mo("AaaProviderRef", parent_dn, "provider-ref-" \o name,
       [name |-> name, order |-> order, descr |-> descr])

\* The system-owned ldap-ext object every path is rooted at.
LdapExt == Mo("AaaLdapEp", ucsc_base_dn, "ldap-ext", EmptyKw)

(***************************************************************************)
(* The session handle: query_dn reads the remote tree; add_mo, set_mo and  *)
(* remove_mo queue a request; commit applies the queue to the tree.        *)
(***************************************************************************)
query_dn(t, dn) == IF dn \in DOMAIN t THEN t[dn] ELSE None

add_mo(buf, mo, modify_present) ==
    Append(buf, [kind |-> "add", mo |-> mo, modify_present |-> modify_present])

set_mo(buf, mo) ==
    Append(buf, [kind |-> "set", mo |-> mo, modify_present |-> FALSE])

remove_mo(buf, mo) ==
    Append(buf, [kind |-> "remove", mo |-> mo, modify_present |-> FALSE])

\* dn is d itself or lies below d in t.
RECURSIVE IsUnder(_, _, _)
IsUnder(t, dn, d) ==
    \/ dn = d
    \/ /\ dn \in DOMAIN t
       /\ t[dn].parent \in DOMAIN t
       /\ IsUnder(t, t[dn].parent, d)

\* The remote system's effect of one committed request.
Apply(t, req) ==
    LET dn == req.mo.dn IN
    CASE req.kind = "add" ->
           IF dn \in DOMAIN t /\ ~req.modify_present
           THEN t
           ELSE [d \in DOMAIN t \cup {dn} |-> IF d = dn THEN req.mo ELSE t[d]]
      [] req.kind = "set" ->
           IF dn \in DOMAIN t
           THEN [t EXCEPT ![dn] = req.mo]
           ELSE t
      [] req.kind = "remove" ->
           [d \in {e \in DOMAIN t : ~IsUnder(t, e, dn)} |-> t[d]]

RECURSIVE commit(_, _)
commit(t, buf) ==
    IF buf = <<>> THEN t ELSE commit(Apply(t, Head(buf)), Tail(buf))

\* The tree has room for an object at dn (it is there, or fewer than
\* MaxObjs objects are below ldap-ext).
Fits(t, dn) == dn \in DOMAIN t \/ Cardinality(DOMAIN t) - 1 < MaxObjs

(***************************************************************************)
(* The external locale registry.                                           *)
(***************************************************************************)
locale_exists(reg, name) ==
    IF name \in reg THEN <<TRUE, [cls |-> "AaaLocale", name |-> name]>>
    ELSE <<FALSE, None>>

(***************************************************************************)
(* Outcome of a call: what was called with which keys and arguments, how   *)
(* it ended, what it returned, the handle calls it issued, and the object  *)
(* an add found at its dn and replaced (None when the dn was free).        *)
(***************************************************************************)
Outcome(op, k1, k2, args, kw, status, flag, ret, calls, replaced) ==
    [op |-> op, k1 |-> k1, k2 |-> k2, args |-> args, kw |-> kw,
     status |-> status, flag |-> flag, ret |-> ret, calls |-> calls,
     replaced |-> replaced]

\* The call raises: nothing is queued or committed.
Raise(op, k1, k2, kw, exc, calls) ==
    /\ last' = Outcome(op, k1, k2, EmptyKw, kw, exc, FALSE, None, calls, None)
    /\ UNCHANGED <<tree, to_commit, locales, callers>>

\* The call returns without touching the remote tree.
Return(op, k1, k2, kw, flag, ret, calls) ==
    /\ last' = Outcome(op, k1, k2, EmptyKw, kw, "ok", flag, ret, calls, None)
    /\ UNCHANGED <<tree, to_commit, locales, callers>>

\* handle.add_mo(mo, True); handle.commit(); return mo
AddAndCommit(op, k1, k2, args, kw, mo, calls) ==
    /\ Fits(tree, mo.dn)
    /\ tree' = commit(tree, add_mo(to_commit, mo, TRUE))
    /\ to_commit' = <<>>
    /\ last' = Outcome(op, k1, k2, args, kw, "ok", FALSE, mo,
                       calls \o <<"add_mo", "commit">>, query_dn(tree, mo.dn))
    /\ UNCHANGED <<locales, callers>>

\* mo.set_prop_multiple(**kwargs); handle.set_mo(mo); handle.commit(); return mo
SetAndCommit(op, k1, k2, kw, mo, calls) ==
    /\ tree' = commit(tree, set_mo(to_commit, mo))
    /\ to_commit' = <<>>
    /\ last' = Outcome(op, k1, k2, EmptyKw, kw, "ok", FALSE, mo,
                       calls \o <<"set_mo", "commit">>, None)
    /\ UNCHANGED <<locales, callers>>

\* handle.remove_mo(mo); handle.commit()
RemoveAndCommit(op, k1, k2, mo, calls) ==
    /\ tree' = commit(tree, remove_mo(to_commit, mo))
    /\ to_commit' = <<>>
    /\ last' = Outcome(op, k1, k2, EmptyKw, EmptyKw, "ok", FALSE, None,
                       calls \o <<"remove_mo", "commit">>, None)
    /\ UNCHANGED <<locales, callers>>

\* ExistsResult returning the object also when a property differs.
ExistsResult_keep_mo(mo, kwargs) ==
    IF mo = None THEN <<FALSE, None>>
    ELSE <<check_prop_match(mo, kwargs), mo>>

\* mo = get(...); if not mo: return (False, None);
\* mo_exists = mo.check_prop_match(**kwargs); return (mo_exists, mo or None)
ExistsResult(mo, kwargs) ==
    IF mo = None THEN <<FALSE, None>>
    ELSE LET mo_exists == check_prop_match(mo, kwargs)
         IN <<mo_exists, IF mo_exists THEN mo ELSE None>>

(***************************************************************************)
(* Inputs.                                                                 *)
(***************************************************************************)
Ports == {"389", "636"}
Descrs == {NoneVal, "d"}
Orders == {"lowest-available", "1"}
Authorizations == {NoneVal, "enable"}

ProviderArgs ==
    {[order |-> "lowest-available", rootdn |-> NoneVal, basedn |-> "",
      port |-> p, enable_ssl |-> "no", filter |-> NoneVal,
      attribute |-> NoneVal, key |-> NoneVal, timeout |-> "30",
      vendor |-> "OpenLdap", retries |-> "1", descr |-> NoneVal] : p \in Ports}

\* Keyword arguments of modify, and expected properties of exists.
ProviderModifyKw == {EmptyKw, [port |-> "389"], [port |-> "636"]}

ProviderExistsKw ==
    {EmptyKw, [port |-> "389"], [port |-> "636", enable_ssl |-> "no"],
     [port |-> "636", enable_ssl |-> "yes"]}

GroupRuleArgs ==
    {[authorization |-> z, traversal |-> NoneVal, target_attr |-> NoneVal,
      name |-> NoneVal, descr |-> NoneVal] : z \in Authorizations}

DescrKw == {EmptyKw, [descr |-> NoneVal], [descr |-> "d"]}

RefModifyKw == {EmptyKw, [order |-> "1"], [order |-> "lowest-available"]}

RefExistsKw ==
    {EmptyKw, [order |-> "1"], [order |-> "1", descr |-> "d"],
     [order |-> "1", descr |-> NoneVal]}

\* Names bound in the module's global namespace: its imports, its one
\* module-level variable and the functions it defines.
ModuleGlobals ==
    {"UcscOperationError", "locale_exists", "get_device_profile_dn",
     "ucsc_base_dn", "ldap_provider_create", "ldap_provider_get",
     "ldap_provider_exists", "ldap_provider_modify", "ldap_provider_delete",
     "ldap_provider_group_rules_configure", "ldap_group_map_create",
     "ldap_group_map_get", "ldap_group_map_exists", "ldap_group_map_delete",
     "ldap_group_map_role_add", "ldap_group_map_role_get",
     "ldap_group_map_role_exists", "ldap_group_map_role_remove",
     "ldap_group_map_locale_add", "ldap_group_map_locale_get",
     "ldap_group_map_locale_exists", "ldap_group_map_locale_remove",
     "ldap_provider_group_create", "ldap_provider_group_get",
     "ldap_provider_group_exists", "ldap_provider_group_delete",
     "ldap_provider_group_provider_add", "ldap_provider_group_provider_get",
     "ldap_provider_group_provider_exists",
     "ldap_provider_group_provider_modify",
     "ldap_provider_group_provider_remove"}

(***************************************************************************)
(* LDAP providers.                                                         *)
(***************************************************************************)
ProviderGet(t, name) ==
    query_dn(t, ucsc_base_dn \o "/ldap-ext/provider-" \o name)

ldap_provider_create(name, a, kwargs) ==
    LET dn == ucsc_base_dn \o "/ldap-ext"
        ldap_mo == query_dn(tree, dn)
    IN IF ldap_mo = None
       THEN Raise("ldap_provider_create", name, NoneVal, kwargs,
                  "UcscOperationError", <<"query_dn">>)
       ELSE AddAndCommit("ldap_provider_create", name, NoneVal, a, kwargs,
                         set_prop_multiple(AaaLdapProvider(dn, name, a), kwargs),
                         <<"query_dn">>)

ldap_provider_get(name) ==
    /\ Return("ldap_provider_get", name, NoneVal, EmptyKw, FALSE,
           ProviderGet(tree, name), <<"query_dn">>)

ldap_provider_exists(name, kwargs) ==
    /\ LET r == ExistsResult(ProviderGet(tree, name), kwargs)
       IN Return("ldap_provider_exists", name, NoneVal, kwargs, r[1], r[2],
                 <<"query_dn">>)

ldap_provider_modify(name, kwargs) ==
    LET mo == ProviderGet(tree, name)
    IN IF mo = None
       THEN Raise("ldap_provider_modify", name, NoneVal, kwargs,
                  "UcscOperationError", <<"query_dn">>)
       ELSE SetAndCommit("ldap_provider_modify", name, NoneVal, kwargs,
                         set_prop_multiple(mo, kwargs), <<"query_dn">>)

ldap_provider_delete(name) ==
    LET mo == ProviderGet(tree, name)
    IN IF mo = None
       THEN Raise("ldap_provider_delete", name, NoneVal, EmptyKw,
                  "UcscOperationError", <<"query_dn">>)
       ELSE RemoveAndCommit("ldap_provider_delete", name, NoneVal, mo,
                            <<"query_dn">>)

\* The external lookup ldap_group_map_locale_remove names.
locale_get(reg, name) == locale_exists(reg, name)

\* ldap_provider_group_rules_configure adding without replace:
\* add_mo(mo, False).
ldap_provider_group_rules_configure_no_replace(ldap_provider_name, a, kwargs) ==
    LET dn == ucsc_base_dn \o "/ldap-ext/provider-" \o ldap_provider_name
        obj == query_dn(tree, dn)
    IN IF obj = None
       THEN Raise("ldap_provider_group_rules_configure", ldap_provider_name,
                  NoneVal, kwargs, "UcscOperationError", <<"query_dn">>)
       ELSE LET mo == set_prop_multiple(
                          set_prop_multiple(AaaLdapGroupRule(obj.dn), a),
                          kwargs)
            IN /\ Fits(tree, mo.dn)
               /\ tree' = commit(tree, add_mo(to_commit, mo, FALSE))
               /\ to_commit' = <<>>
               /\ last' = Outcome("ldap_provider_group_rules_configure",
                                  ldap_provider_name, NoneVal, a, kwargs, "ok",
                                  FALSE, mo, <<"query_dn", "add_mo", "commit">>,
                                  query_dn(tree, mo.dn))
               /\ UNCHANGED <<locales, callers>>

ldap_provider_group_rules_configure(ldap_provider_name, a, kwargs) ==
    LET dn == ucsc_base_dn \o "/ldap-ext/provider-" \o ldap_provider_name
        obj == query_dn(tree, dn)
    IN IF obj = None
       THEN Raise("ldap_provider_group_rules_configure", ldap_provider_name,
                  NoneVal, kwargs, "UcscOperationError", <<"query_dn">>)
       ELSE AddAndCommit("ldap_provider_group_rules_configure",
                         ldap_provider_name, NoneVal, a, kwargs,
                         set_prop_multiple(
                             set_prop_multiple(AaaLdapGroupRule(obj.dn), a),
                             kwargs),
                         <<"query_dn">>)

(***************************************************************************)
(* LDAP group maps, with their role and locale mappings.                   *)
(***************************************************************************)
GroupMapGet(t, name) ==
    query_dn(t, ucsc_base_dn \o "/ldap-ext/ldapgroup-" \o name)

\* ldap_group_map_create adding without replace: add_mo(mo, False).
ldap_group_map_create_no_replace(name, descr, kwargs) ==
    LET mo == set_prop_multiple(
                  AaaLdapGroup(ucsc_base_dn \o "/ldap-ext", name, descr),
                  kwargs)
    IN /\ Fits(tree, mo.dn)
       /\ tree' = commit(tree, add_mo(to_commit, mo, FALSE))
       /\ to_commit' = <<>>
       /\ last' = Outcome("ldap_group_map_create", name, NoneVal,
                          [descr |-> descr], kwargs, "ok", FALSE, mo,
                          <<"add_mo", "commit">>, query_dn(tree, mo.dn))
       /\ UNCHANGED <<locales, callers>>

ldap_group_map_create(name, descr, kwargs) ==
    /\ AddAndCommit("ldap_group_map_create", name, NoneVal,
                    [descr |-> descr], kwargs,
                    set_prop_multiple(
                        AaaLdapGroup(ucsc_base_dn \o "/ldap-ext", name, descr),
                        kwargs),
                    <<>>)

ldap_group_map_get(name) ==
    /\ Return("ldap_group_map_get", name, NoneVal, EmptyKw, FALSE,
              GroupMapGet(tree, name), <<"query_dn">>)

ldap_group_map_exists(name, kwargs) ==
    /\ LET r == ExistsResult(GroupMapGet(tree, name), kwargs)
       IN Return("ldap_group_map_exists", name, NoneVal, kwargs, r[1], r[2],
                 <<"query_dn">>)

ldap_group_map_delete(name) ==
    LET mo == GroupMapGet(tree, name)
    IN IF mo = None
       THEN Raise("ldap_group_map_delete", name, NoneVal, EmptyKw,
                  "UcscOperationError", <<"query_dn">>)
       ELSE RemoveAndCommit("ldap_group_map_delete", name, NoneVal, mo,
                            <<"query_dn">>)

GroupMapRoleGet(t, ldap_group_map_name, name) ==
    LET ldap_dn == ucsc_base_dn \o "/ldap-ext/ldapgroup-" \o ldap_group_map_name
        dn == ldap_dn \o "/role-" \o name
    IN query_dn(t, dn)

\* ldap_group_map_role_add without the check of the group map: the role is
\* built on the dn.
ldap_group_map_role_add_unchecked(ldap_group_map_name, name, descr, kwargs) ==
    LET dn == ucsc_base_dn \o "/ldap-ext/ldapgroup-" \o ldap_group_map_name
    IN /\ AddAndCommit("ldap_group_map_role_add", ldap_group_map_name, name,
                       [descr |-> descr], kwargs,
                       set_prop_multiple(AaaUserRole(dn, name, descr), kwargs),
                       <<>>)

ldap_group_map_role_add(ldap_group_map_name, name, descr, kwargs) ==
    LET dn == ucsc_base_dn \o "/ldap-ext/ldapgroup-" \o ldap_group_map_name
        obj == query_dn(tree, dn)
    IN IF obj = None
       THEN Raise("ldap_group_map_role_add", ldap_group_map_name, name, kwargs,
                  "UcscOperationError", <<"query_dn">>)
       ELSE AddAndCommit("ldap_group_map_role_add", ldap_group_map_name, name,
                         [descr |-> descr], kwargs,
                         set_prop_multiple(AaaUserRole(obj.dn, name, descr),
                                           kwargs),
                         <<"query_dn">>)

ldap_group_map_role_get(ldap_group_map_name, name) ==
    /\ Return("ldap_group_map_role_get", ldap_group_map_name, name, EmptyKw,
              FALSE, GroupMapRoleGet(tree, ldap_group_map_name, name),
              <<"query_dn">>)

ldap_group_map_role_exists(ldap_group_map_name, name, kwargs) ==
    /\ LET r == ExistsResult(GroupMapRoleGet(tree, ldap_group_map_name, name),
                             kwargs)
       IN Return("ldap_group_map_role_exists", ldap_group_map_name, name,
                 kwargs, r[1], r[2], <<"query_dn">>)

ldap_group_map_role_remove(ldap_group_map_name, name) ==
    LET mo == GroupMapRoleGet(tree, ldap_group_map_name, name)
    IN IF mo = None
       THEN Raise("ldap_group_map_role_remove", ldap_group_map_name, name,
                  EmptyKw, "UcscOperationError", <<"query_dn">>)
       ELSE RemoveAndCommit("ldap_group_map_role_remove", ldap_group_map_name,
                            name, mo, <<"query_dn">>)

GroupMapLocaleGet(t, ldap_group_map_name, name) ==
    LET ldap_dn == ucsc_base_dn \o "/ldap-ext/ldapgroup-" \o ldap_group_map_name
        dn == ldap_dn \o "/locale-" \o name
    IN query_dn(t, dn)

\* ldap_group_map_locale_add without the check of the locale.
ldap_group_map_locale_add_unchecked(ldap_group_map_name, name, descr, kwargs) ==
    LET dn == ucsc_base_dn \o "/ldap-ext/ldapgroup-" \o ldap_group_map_name
        obj == query_dn(tree, dn)
    IN IF obj = None
       THEN Raise("ldap_group_map_locale_add", ldap_group_map_name, name,
                  kwargs, "UcscOperationError", <<"query_dn">>)
       ELSE AddAndCommit("ldap_group_map_locale_add", ldap_group_map_name,
                         name, [descr |-> descr], kwargs,
                         set_prop_multiple(AaaUserLocale(obj.dn, name, descr),
                                           kwargs),
                         <<"query_dn">>)

ldap_group_map_locale_add(ldap_group_map_name, name, descr, kwargs) ==
    LET dn == ucsc_base_dn \o "/ldap-ext/ldapgroup-" \o ldap_group_map_name
        obj == query_dn(tree, dn)
    IN IF obj = None
       THEN Raise("ldap_group_map_locale_add", ldap_group_map_name, name,
                  kwargs, "UcscOperationError", <<"query_dn">>)
       ELSE IF ~locale_exists(locales, name)[1]
       THEN Raise("ldap_group_map_locale_add", ldap_group_map_name, name,
                  kwargs, "UcscOperationError",
                  <<"query_dn", "locale_exists">>)
       ELSE AddAndCommit("ldap_group_map_locale_add", ldap_group_map_name,
                         name, [descr |-> descr], kwargs,
                         set_prop_multiple(AaaUserLocale(obj.dn, name, descr),
                                           kwargs),
                         <<"query_dn", "locale_exists">>)

\* ldap_group_map_locale_get raising for an absent mapping.
ldap_group_map_locale_get_raising(ldap_group_map_name, name) ==
    LET mo == GroupMapLocaleGet(tree, ldap_group_map_name, name)
    IN IF mo = None
       THEN Raise("ldap_group_map_locale_get", ldap_group_map_name, name,
                  EmptyKw, "UcscOperationError", <<"query_dn">>)
       ELSE Return("ldap_group_map_locale_get", ldap_group_map_name, name,
                   EmptyKw, FALSE, mo, <<"query_dn">>)

ldap_group_map_locale_get(ldap_group_map_name, name) ==
    /\ Return("ldap_group_map_locale_get", ldap_group_map_name, name, EmptyKw,
              FALSE, GroupMapLocaleGet(tree, ldap_group_map_name, name),
              <<"query_dn">>)

ldap_group_map_locale_exists(ldap_group_map_name, name, kwargs) ==
    /\ LET r == ExistsResult(GroupMapLocaleGet(tree, ldap_group_map_name, name),
                             kwargs)
       IN Return("ldap_group_map_locale_exists", ldap_group_map_name, name,
                 kwargs, r[1], r[2], <<"query_dn">>)

\* The name locale_get is looked up in the module's globals when the line
\* is reached; a name that is not bound there raises NameError.
ldap_group_map_locale_remove(ldap_group_map_name, name) ==
    LET mo == GroupMapLocaleGet(tree, ldap_group_map_name, name)
    IN IF mo = None
       THEN Raise("ldap_group_map_locale_remove", ldap_group_map_name, name,
                  EmptyKw, "UcscOperationError", <<"query_dn">>)
       ELSE IF "locale_get" \notin ModuleGlobals
       THEN Raise("ldap_group_map_locale_remove", ldap_group_map_name, name,
                  EmptyKw, "NameError", <<"query_dn">>)
       ELSE IF ~locale_get(locales, name)[1]
       THEN Raise("ldap_group_map_locale_remove", ldap_group_map_name, name,
                  EmptyKw, "UcscOperationError", <<"query_dn", "locale_get">>)
       ELSE RemoveAndCommit("ldap_group_map_locale_remove",
                            ldap_group_map_name, name, mo,
                            <<"query_dn", "locale_get">>)

(***************************************************************************)
(* LDAP provider groups, with their provider references.                   *)
(***************************************************************************)
ProviderGroupGet(t, name) ==
    query_dn(t, ucsc_base_dn \o "/ldap-ext/providergroup-" \o name)

ldap_provider_group_create(name, descr, kwargs) ==
    /\ AddAndCommit("ldap_provider_group_create", name, NoneVal,
                    [descr |-> descr], kwargs,
                    set_prop_multiple(
                        AaaProviderGroup(ucsc_base_dn \o "/ldap-ext", name,
                                         descr),
                        kwargs),
                    <<>>)

ldap_provider_group_get(name) ==
    /\ Return("ldap_provider_group_get", name, NoneVal, EmptyKw, FALSE,
              ProviderGroupGet(tree, name), <<"query_dn">>)

ldap_provider_group_exists(name, kwargs) ==
    /\ LET r == ExistsResult(ProviderGroupGet(tree, name), kwargs)
       IN Return("ldap_provider_group_exists", name, NoneVal, kwargs, r[1],
                 r[2], <<"query_dn">>)

ldap_provider_group_delete(name) ==
    LET mo == ProviderGroupGet(tree, name)
    IN IF mo = None
       THEN Raise("ldap_provider_group_delete", name, NoneVal, EmptyKw,
                  "UcscOperationError", <<"query_dn">>)
       ELSE RemoveAndCommit("ldap_provider_group_delete", name, NoneVal, mo,
                            <<"query_dn">>)

ProviderGroupProviderGet(t, group_name, name) ==
    LET group_dn == ucsc_base_dn \o "/ldap-ext/providergroup-" \o group_name
        provider_dn == group_dn \o "/provider-ref-" \o name
    IN query_dn(t, provider_dn)

\* ldap_provider_group_provider_add without the check of the provider.
ldap_provider_group_provider_add_unchecked(group_name, name, order, descr, kwargs) ==
    LET group_dn == ucsc_base_dn \o "/ldap-ext/providergroup-" \o group_name
        group_mo == query_dn(tree, group_dn)
    IN IF group_mo = None
       THEN Raise("ldap_provider_group_provider_add", group_name, name, kwargs,
                  "UcscOperationError", <<"query_dn">>)
       ELSE AddAndCommit("ldap_provider_group_provider_add", group_name, name,
                         [order |-> order, descr |-> descr], kwargs,
                         set_prop_multiple(
                             AaaProviderRef(group_mo.dn, name, order, descr),
                             kwargs),
                         <<"query_dn">>)

ldap_provider_group_provider_add(group_name, name, order, descr, kwargs) ==
    LET group_dn == ucsc_base_dn \o "/ldap-ext/providergroup-" \o group_name
        group_mo == query_dn(tree, group_dn)
        provider_dn == ucsc_base_dn \o "/ldap-ext/provider-" \o name
        provider_mo == query_dn(tree, provider_dn)
    IN IF group_mo = None
       THEN Raise("ldap_provider_group_provider_add", group_name, name, kwargs,
                  "UcscOperationError", <<"query_dn">>)
       ELSE IF provider_mo = None
       THEN Raise("ldap_provider_group_provider_add", group_name, name, kwargs,
                  "UcscOperationError", <<"query_dn", "query_dn">>)
       ELSE AddAndCommit("ldap_provider_group_provider_add", group_name, name,
                         [order |-> order, descr |-> descr], kwargs,
                         set_prop_multiple(
                             AaaProviderRef(group_mo.dn, name, order, descr),
                             kwargs),
                         <<"query_dn", "query_dn">>)

ldap_provider_group_provider_get(group_name, name) ==
    /\ Return("ldap_provider_group_provider_get", group_name, name, EmptyKw,
              FALSE, ProviderGroupProviderGet(tree, group_name, name),
              <<"query_dn">>)

ldap_provider_group_provider_exists(group_name, name, kwargs) ==
    /\ LET r == ExistsResult(ProviderGroupProviderGet(tree, group_name, name),
                             kwargs)
       IN Return("ldap_provider_group_provider_exists", group_name, name,
                 kwargs, r[1], r[2], <<"query_dn">>)

\* ldap_provider_group_provider_modify returning None for an absent
\* reference instead of raising.
ldap_provider_group_provider_modify_silent(group_name, name, kwargs) ==
    LET mo == ProviderGroupProviderGet(tree, group_name, name)
    IN IF mo = None
       THEN Return("ldap_provider_group_provider_modify", group_name, name,
                   kwargs, FALSE, None, <<"query_dn">>)
       ELSE SetAndCommit("ldap_provider_group_provider_modify", group_name,
                         name, kwargs, set_prop_multiple(mo, kwargs),
                         <<"query_dn">>)

ldap_provider_group_provider_modify(group_name, name, kwargs) ==
    LET mo == ProviderGroupProviderGet(tree, group_name, name)
    IN IF mo = None
       THEN Raise("ldap_provider_group_provider_modify", group_name, name,
                  kwargs, "UcscOperationError", <<"query_dn">>)
       ELSE SetAndCommit("ldap_provider_group_provider_modify", group_name,
                         name, kwargs, set_prop_multiple(mo, kwargs),
                         <<"query_dn">>)

\* ldap_provider_group_provider_remove checking the named provider again.
ldap_provider_group_provider_remove_rechecks(group_name, name) ==
    LET mo == ProviderGroupProviderGet(tree, group_name, name)
    IN IF mo = None \/ ProviderGet(tree, name) = None
       THEN Raise("ldap_provider_group_provider_remove", group_name, name,
                  EmptyKw, "UcscOperationError", <<"query_dn">>)
       ELSE RemoveAndCommit("ldap_provider_group_provider_remove", group_name,
                            name, mo, <<"query_dn">>)

\* ldap_provider_group_provider_remove without its handle.commit().
ldap_provider_group_provider_remove_no_commit(group_name, name) ==
    LET mo == ProviderGroupProviderGet(tree, group_name, name)
    IN IF mo = None
       THEN Raise("ldap_provider_group_provider_remove", group_name, name,
                  EmptyKw, "UcscOperationError", <<"query_dn">>)
       ELSE /\ to_commit' = remove_mo(to_commit, mo)
            /\ last' = Outcome("ldap_provider_group_provider_remove",
                               group_name, name, EmptyKw, EmptyKw, "ok", FALSE,
                               None, <<"query_dn", "remove_mo">>, None)
            /\ UNCHANGED <<tree, locales, callers>>

ldap_provider_group_provider_remove(group_name, name) ==
    LET mo == ProviderGroupProviderGet(tree, group_name, name)
    IN IF mo = None
       THEN Raise("ldap_provider_group_provider_remove", group_name, name,
                  EmptyKw, "UcscOperationError", <<"query_dn">>)
       ELSE RemoveAndCommit("ldap_provider_group_provider_remove", group_name,
                            name, mo, <<"query_dn">>)

(***************************************************************************)
(* The locale registry changes outside the facade.                         *)
(***************************************************************************)
locale_create(name) ==
    /\ name \notin locales
    /\ locales' = locales \cup {name}
    /\ last' = Outcome("locale_create", name, NoneVal, EmptyKw, EmptyKw, "ok",
                       FALSE, None, <<>>, None)
    /\ UNCHANGED <<tree, to_commit, callers>>

locale_delete(name) ==
    /\ name \in locales
    /\ locales' = locales \ {name}
    /\ last' = Outcome("locale_delete", name, NoneVal, EmptyKw, EmptyKw, "ok",
                       FALSE, None, <<>>, None)
    /\ UNCHANGED <<tree, to_commit, callers>>

\* A caller's place in a delete: the function and name it was called with,
\* the object its get returned, how the call ended, the handle calls it has
\* issued, and whether its existence check and another caller's check of the
\* same object both passed before either submitted its remove.
IdleCaller ==
    [pc |-> "idle", op |-> NoneVal, name |-> NoneVal, mo |-> None,
     status |-> "none", calls |-> <<>>, raced |-> FALSE]

Init ==
    /\ tree = [d \in {LdapExt.dn} |-> LdapExt]
    /\ to_commit = <<>>
    /\ locales = {}
    /\ last = Outcome("init", NoneVal, NoneVal, EmptyKw, EmptyKw, "ok", FALSE,
                      None, <<>>, None)
    /\ callers = [c \in Callers |-> IdleCaller]

Next ==
    \/ \E n \in ProviderNames, a \in ProviderArgs :
          ldap_provider_create(n, a, EmptyKw)
    \/ \E n \in ProviderNames : ldap_provider_get(n)
    \/ \E n \in ProviderNames, kw \in ProviderExistsKw : ldap_provider_exists(n, kw)
    \/ \E n \in ProviderNames, kw \in ProviderModifyKw : ldap_provider_modify(n, kw)
    \/ \E n \in ProviderNames : ldap_provider_delete(n)
    \/ \E n \in ProviderNames, a \in GroupRuleArgs :
          ldap_provider_group_rules_configure(n, a, EmptyKw)
    \/ \E n \in GroupMapNames, d \in Descrs : ldap_group_map_create(n, d, EmptyKw)
    \/ \E n \in GroupMapNames : ldap_group_map_get(n)
    \/ \E n \in GroupMapNames, kw \in DescrKw : ldap_group_map_exists(n, kw)
    \/ \E n \in GroupMapNames : ldap_group_map_delete(n)
    \/ \E g \in GroupMapNames, n \in RoleNames, d \in Descrs :
          ldap_group_map_role_add(g, n, d, EmptyKw)
    \/ \E g \in GroupMapNames, n \in RoleNames : ldap_group_map_role_get(g, n)
    \/ \E g \in GroupMapNames, n \in RoleNames, kw \in DescrKw :
          ldap_group_map_role_exists(g, n, kw)
    \/ \E g \in GroupMapNames, n \in RoleNames :
          ldap_group_map_role_remove(g, n)
    \/ \E g \in GroupMapNames, n \in LocaleNames, d \in Descrs :
          ldap_group_map_locale_add(g, n, d, EmptyKw)
    \/ \E g \in GroupMapNames, n \in LocaleNames :
          ldap_group_map_locale_get(g, n)
    \/ \E g \in GroupMapNames, n \in LocaleNames, kw \in DescrKw :
          ldap_group_map_locale_exists(g, n, kw)
    \/ \E g \in GroupMapNames, n \in LocaleNames :
          ldap_group_map_locale_remove(g, n)
    \/ \E n \in ProviderGroupNames, d \in Descrs :
          ldap_provider_group_create(n, d, EmptyKw)
    \/ \E n \in ProviderGroupNames : ldap_provider_group_get(n)
    \/ \E n \in ProviderGroupNames, kw \in DescrKw :
          ldap_provider_group_exists(n, kw)
    \/ \E n \in ProviderGroupNames : ldap_provider_group_delete(n)
    \/ \E g \in ProviderGroupNames, n \in ProviderNames, o \in Orders :
          ldap_provider_group_provider_add(g, n, o, NoneVal, EmptyKw)
    \/ \E g \in ProviderGroupNames, n \in ProviderNames :
          ldap_provider_group_provider_get(g, n)
    \/ \E g \in ProviderGroupNames, n \in ProviderNames, kw \in RefExistsKw :
          ldap_provider_group_provider_exists(g, n, kw)
    \/ \E g \in ProviderGroupNames, n \in ProviderNames, kw \in RefModifyKw :
          ldap_provider_group_provider_modify(g, n, kw)
    \/ \E g \in ProviderGroupNames, n \in ProviderNames :
          ldap_provider_group_provider_remove(g, n)
    \/ \E n \in LocaleNames : locale_create(n)
    \/ \E n \in LocaleNames : locale_delete(n)

Spec == Init /\ [][Next]_vars

(***************************************************************************)
(* Two callers sharing the handle.  A delete is three blocking steps: the  *)
(* get with the existence check, handle.remove_mo, handle.commit.  The     *)
(* steps of the callers interleave; nothing in the facade orders them.     *)
(***************************************************************************)
DeleteGet(op, t, name) ==
    CASE op = "ldap_provider_delete" -> ProviderGet(t, name)
      [] op = "ldap_provider_group_delete" -> ProviderGroupGet(t, name)

\* mo = get(handle, name); if not mo: raise UcscOperationError(...)
DeleteCheck(c, op, name) ==
    /\ callers[c].pc = "idle"
    /\ LET mo == DeleteGet(op, tree, name)
           others == {o \in Callers \ {c} :
                         /\ callers[o].pc = "checked"
                         /\ callers[o].op = op
                         /\ callers[o].name = name}
       IN callers' =
            [o \in Callers |->
               IF o = c
               THEN IF mo = None
                    THEN [pc |-> "idle", op |-> op, name |-> name, mo |-> None,
                          status |-> "UcscOperationError",
                          calls |-> <<"query_dn">>, raced |-> FALSE]
                    ELSE [pc |-> "checked", op |-> op, name |-> name,
                          mo |-> mo, status |-> "running",
                          calls |-> <<"query_dn">>, raced |-> others # {}]
               ELSE IF mo # None /\ o \in others
                    THEN [callers[o] EXCEPT !.raced = TRUE]
                    ELSE callers[o]]
    /\ UNCHANGED <<tree, to_commit, locales, last>>

\* DeleteRemoveMo looking the object up again before it submits the remove.
DeleteRemoveMo_rechecks(c, op) ==
    /\ callers[c].pc = "checked"
    /\ callers[c].op = op
    /\ IF DeleteGet(op, tree, callers[c].name) = None
       THEN /\ callers' = [callers EXCEPT ![c].pc = "idle",
                                          ![c].status = "UcscOperationError",
                                          ![c].calls = @ \o <<"query_dn">>]
            /\ UNCHANGED to_commit
       ELSE /\ to_commit' = remove_mo(to_commit, callers[c].mo)
            /\ callers' = [callers EXCEPT ![c].pc = "queued",
                                          ![c].calls = @ \o <<"remove_mo">>]
    /\ UNCHANGED <<tree, locales, last>>

\* handle.remove_mo(mo)
DeleteRemoveMo(c, op) ==
    /\ callers[c].pc = "checked"
    /\ callers[c].op = op
    /\ to_commit' = remove_mo(to_commit, callers[c].mo)
    /\ callers' = [callers EXCEPT ![c].pc = "queued",
                                  ![c].calls = @ \o <<"remove_mo">>]
    /\ UNCHANGED <<tree, locales, last>>

\* The queue, applied in order, removes an object that is not there.
RECURSIVE RemovesAbsent(_, _)
RemovesAbsent(t, buf) ==
    /\ buf # <<>>
    /\ \/ Head(buf).kind = "remove" /\ Head(buf).mo.dn \notin DOMAIN t
       \/ RemovesAbsent(Apply(t, Head(buf)), Tail(buf))

\* How the remote system may answer a commit: it accepts it, or it may
\* reject a remove of an object that is already gone with an error of its
\* own, which the facade passes on.
CommitStatuses(t, buf) ==
    IF RemovesAbsent(t, buf) THEN {"ok", "RemoteError"} ELSE {"ok"}

\* handle.commit()
DeleteCommit(c, op) ==
    /\ callers[c].pc = "queued"
    /\ callers[c].op = op
    /\ \E st \in CommitStatuses(tree, to_commit) :
          callers' = [callers EXCEPT ![c].pc = "idle",
                                     ![c].status = st,
                                     ![c].calls = @ \o <<"commit">>]
    /\ tree' = commit(tree, to_commit)
    /\ to_commit' = <<>>
    /\ UNCHANGED <<locales, last>>

ldap_provider_delete_check(c, name) ==
    /\ DeleteCheck(c, "ldap_provider_delete", name)

ldap_provider_delete_remove_mo(c) ==
    /\ DeleteRemoveMo(c, "ldap_provider_delete")

ldap_provider_delete_commit(c) ==
    /\ DeleteCommit(c, "ldap_provider_delete")

ldap_provider_group_delete_check(c, name) ==
    /\ DeleteCheck(c, "ldap_provider_group_delete", name)

ldap_provider_group_delete_remove_mo(c) ==
    /\ DeleteRemoveMo(c, "ldap_provider_group_delete")

ldap_provider_group_delete_commit(c) ==
    /\ DeleteCommit(c, "ldap_provider_group_delete")

\* No caller is inside a delete.
AllIdle == \A c \in Callers : callers[c].pc = "idle"

\* Objects are created between the deletes; the deletes of the two callers
\* interleave step by step.
NextConc ==
    \/ /\ AllIdle
       /\ \E n \in ProviderNames, a \in ProviderArgs :
             ldap_provider_create(n, a, EmptyKw)
    \/ /\ AllIdle
       /\ \E n \in ProviderGroupNames, d \in Descrs :
             ldap_provider_group_create(n, d, EmptyKw)
    \/ \E c \in Callers, n \in ProviderNames : ldap_provider_delete_check(c, n)
    \/ \E c \in Callers : ldap_provider_delete_remove_mo(c)
    \/ \E c \in Callers : ldap_provider_delete_commit(c)
    \/ \E c \in Callers, n \in ProviderGroupNames :
          ldap_provider_group_delete_check(c, n)
    \/ \E c \in Callers : ldap_provider_group_delete_remove_mo(c)
    \/ \E c \in Callers : ldap_provider_group_delete_commit(c)

SpecConc == Init /\ [][NextConc]_vars

(***************************************************************************)
(* The families of the facade: for each, the names of its operations and   *)
(* the lookup its get performs.                                            *)
(***************************************************************************)
Families ==
    {"provider", "group_map", "group_map_role", "group_map_locale",
     "provider_group", "provider_group_provider"}

CreateOp ==
    [provider |-> "ldap_provider_create",
     group_map |-> "ldap_group_map_create",
     group_map_role |-> "ldap_group_map_role_add",
     group_map_locale |-> "ldap_group_map_locale_add",
     provider_group |-> "ldap_provider_group_create",
     provider_group_provider |-> "ldap_provider_group_provider_add"]

GetOp ==
    [provider |-> "ldap_provider_get",
     group_map |-> "ldap_group_map_get",
     group_map_role |-> "ldap_group_map_role_get",
     group_map_locale |-> "ldap_group_map_locale_get",
     provider_group |-> "ldap_provider_group_get",
     provider_group_provider |-> "ldap_provider_group_provider_get"]

ExistsOp ==
    [provider |-> "ldap_provider_exists",
     group_map |-> "ldap_group_map_exists",
     group_map_role |-> "ldap_group_map_role_exists",
     group_map_locale |-> "ldap_group_map_locale_exists",
     provider_group |-> "ldap_provider_group_exists",
     provider_group_provider |-> "ldap_provider_group_provider_exists"]

DeleteOp ==
    [provider |-> "ldap_provider_delete",
     group_map |-> "ldap_group_map_delete",
     group_map_role |-> "ldap_group_map_role_remove",
     group_map_locale |-> "ldap_group_map_locale_remove",
     provider_group |-> "ldap_provider_group_delete",
     provider_group_provider |-> "ldap_provider_group_provider_remove"]

FamilyGet(fam, t, k1, k2) ==
    CASE fam = "provider" -> ProviderGet(t, k1)
      [] fam = "group_map" -> GroupMapGet(t, k1)
      [] fam = "group_map_role" -> GroupMapRoleGet(t, k1, k2)
      [] fam = "group_map_locale" -> GroupMapLocaleGet(t, k1, k2)
      [] fam = "provider_group" -> ProviderGroupGet(t, k1)
      [] fam = "provider_group_provider" -> ProviderGroupProviderGet(t, k1, k2)

\* The object's own key among the keys of a call.
OwnKey(o) == IF o.k2 = NoneVal THEN o.k1 ELSE o.k2

\* mo is an object named key that carries every attribute of args and kw.
HasAttrs(mo, key, args, kw) ==
    /\ mo # None
    /\ mo.props.name = key
    /\ \A k \in DOMAIN args : mo.props[k] = args[k]
    /\ \A k \in DOMAIN kw : mo.props[k] = kw[k]

SameKeys(o1, o2) == o1.k1 = o2.k1 /\ o1.k2 = o2.k2

Mutators == {"add_mo", "set_mo", "remove_mo", "commit"}

Issued(o) == {o.calls[i] : i \in DOMAIN o.calls}

(***************************************************************************)
(* C1: in every family with a create and a get, once a create has          *)
(* succeeded the object at its key carries the attributes supplied, also   *)
(* when the create replaced an object with other attributes, and a get     *)
(* with the same keys that follows the create returns that object.         *)
(***************************************************************************)
C1_CreateThenGet ==
    [][\A fam \in Families :
          /\ (last'.op = CreateOp[fam] /\ last'.status = "ok")
                => HasAttrs(FamilyGet(fam, tree', last'.k1, last'.k2),
                            OwnKey(last'), last'.args, last'.kw)
          /\ (/\ last.op = CreateOp[fam] /\ last.status = "ok"
              /\ last'.op = GetOp[fam] /\ SameKeys(last, last'))
                => /\ last'.status = "ok"
                   /\ HasAttrs(last'.ret, OwnKey(last), last.args, last.kw)]_vars

\* A create has just replaced an object whose attributes differed.
C1_Witness ==
    /\ \E fam \in Families : last.op = CreateOp[fam]
    /\ last.status = "ok"
    /\ last.replaced # None
    /\ last.replaced.props # last.ret.props

(***************************************************************************)
(* C2: exists returns (true, object) exactly when get on the same keys is  *)
(* non-empty and every expected attribute equals the object's; otherwise   *)
(* it returns (false, none).  The object is none exactly when the flag is  *)
(* false, and is otherwise the object get returns.                         *)
(***************************************************************************)
C2_ExistsIffMatch ==
    \A fam \in Families :
        last.op = ExistsOp[fam] =>
            LET g == FamilyGet(fam, tree, last.k1, last.k2)
                matches == /\ g # None
                           /\ \A k \in DOMAIN last.kw : g.props[k] = last.kw[k]
            IN /\ last.status = "ok"
               /\ last.flag <=> matches
               /\ last.flag => last.ret = g
               /\ (last.ret = None) <=> ~last.flag

\* An exists found the object but one of two expected attributes differs.
C2_Witness ==
    /\ \E fam \in Families : last.op = ExistsOp[fam]
    /\ FamilyGet(CHOOSE fam \in Families : last.op = ExistsOp[fam],
                 tree, last.k1, last.k2) # None
    /\ Cardinality(DOMAIN last.kw) = 2
    /\ ~last.flag
    /\ last.ret = None

(***************************************************************************)
(* C3: after a delete of an existing provider, group map, group-map role,  *)
(* provider group or provider reference, get on the same keys is empty,    *)
(* and a delete of the same keys that follows at once raises               *)
(* UcscOperationError.                                                     *)
(***************************************************************************)
C3_Families == Families \ {"group_map_locale"}

C3_DeleteThenGetEmpty ==
    [][\A fam \in C3_Families :
          /\ (last'.op = DeleteOp[fam] /\ last'.status = "ok")
                => /\ FamilyGet(fam, tree, last'.k1, last'.k2) # None
                   /\ FamilyGet(fam, tree', last'.k1, last'.k2) = None
          /\ (/\ last.op = DeleteOp[fam] /\ last.status = "ok"
              /\ last'.op = GetOp[fam] /\ SameKeys(last, last'))
                => last'.ret = None
          /\ (/\ last.op = DeleteOp[fam] /\ last.status = "ok"
              /\ last'.op = DeleteOp[fam] /\ SameKeys(last, last'))
                => last'.status = "UcscOperationError"]_vars

\* A delete of an existing object has just succeeded.
C3_Witness ==
    /\ \E fam \in C3_Families : last.op = DeleteOp[fam]
    /\ last.status = "ok"
    /\ "remove_mo" \in Issued(last)

(***************************************************************************)
(* C4: ldap_group_map_locale_remove of a locale mapping that exists, while *)
(* the locale is in the registry, submits the remove and commits, and the  *)
(* mapping is gone from the tree afterwards.                               *)
(***************************************************************************)
C4_LocaleRemoveRemoves ==
    [][(/\ last'.op = "ldap_group_map_locale_remove"
        /\ GroupMapLocaleGet(tree, last'.k1, last'.k2) # None
        /\ last'.k2 \in locales)
          => /\ last'.status = "ok"
             /\ {"remove_mo", "commit"} \subseteq Issued(last')
             /\ GroupMapLocaleGet(tree', last'.k1, last'.k2) = None]_vars

(***************************************************************************)
(* C5: ldap_group_map_locale_remove of a locale mapping that exists, while *)
(* the locale is no longer in the registry, raises UcscOperationError and  *)
(* leaves the mapping in the tree.                                         *)
(***************************************************************************)
C5_LocaleRemoveStaleLocale ==
    [][(/\ last'.op = "ldap_group_map_locale_remove"
        /\ GroupMapLocaleGet(tree, last'.k1, last'.k2) # None
        /\ last'.k2 \notin locales)
          => /\ last'.status = "UcscOperationError"
             /\ GroupMapLocaleGet(tree', last'.k1, last'.k2)
                  = GroupMapLocaleGet(tree, last'.k1, last'.k2)]_vars

(***************************************************************************)
(* C6: ldap_provider_modify and ldap_provider_group_provider_modify on a   *)
(* key that has no object raise UcscOperationError, issue no set_mo,       *)
(* add_mo, remove_mo or commit, and leave the remote tree as it was.       *)
(***************************************************************************)
C6_ModifyAbsent ==
    [][/\ (/\ last'.op = "ldap_provider_modify"
           /\ ProviderGet(tree, last'.k1) = None)
             => /\ last'.status = "UcscOperationError"
                /\ Issued(last') \cap Mutators = {}
                /\ tree' = tree /\ to_commit' = to_commit
       /\ (/\ last'.op = "ldap_provider_group_provider_modify"
           /\ ProviderGroupProviderGet(tree, last'.k1, last'.k2) = None)
             => /\ last'.status = "UcscOperationError"
                /\ Issued(last') \cap Mutators = {}
                /\ tree' = tree /\ to_commit' = to_commit]_vars

\* A modify of a reference that is not under an existing provider group
\* has just raised.
C6_Witness ==
    /\ last.op = "ldap_provider_group_provider_modify"
    /\ ProviderGroupGet(tree, last.k1) # None
    /\ ProviderGroupProviderGet(tree, last.k1, last.k2) = None
    /\ last.status = "UcscOperationError"
    /\ last.kw # EmptyKw

(***************************************************************************)
(* C7: ldap_provider_group_provider_add under an existing provider group   *)
(* with a name no LdapProvider has raises UcscOperationError, issues no    *)
(* add_mo or commit, and leaves the group's provider-ref-<name> as it was: *)
(* there is one afterwards only if there was one before.                   *)
(***************************************************************************)
C7_RefAddNoProvider ==
    [][(/\ last'.op = "ldap_provider_group_provider_add"
        /\ ProviderGroupGet(tree, last'.k1) # None
        /\ ProviderGet(tree, last'.k2) = None)
          => /\ last'.status = "UcscOperationError"
             /\ Issued(last') \cap Mutators = {}
             /\ ProviderGroupProviderGet(tree', last'.k1, last'.k2)
                  = ProviderGroupProviderGet(tree, last'.k1, last'.k2)
             /\ tree' = tree]_vars

\* An add under an existing group, naming a provider that does not exist,
\* has just raised; no reference of that name is under the group.
C7_Witness ==
    /\ last.op = "ldap_provider_group_provider_add"
    /\ last.status = "UcscOperationError"
    /\ ProviderGroupGet(tree, last.k1) # None
    /\ ProviderGet(tree, last.k2) = None
    /\ ProviderGroupProviderGet(tree, last.k1, last.k2) = None

(***************************************************************************)
(* C8: ldap_group_map_locale_add under an existing group map with a locale *)
(* name the locale registry does not hold raises UcscOperationError and    *)
(* adds no locale mapping to the group map.                                *)
(***************************************************************************)
C8_LocaleAddNoLocale ==
    [][(/\ last'.op = "ldap_group_map_locale_add"
        /\ GroupMapGet(tree, last'.k1) # None
        /\ last'.k2 \notin locales)
          => /\ last'.status = "UcscOperationError"
             /\ Issued(last') \cap Mutators = {}
             /\ GroupMapLocaleGet(tree', last'.k1, last'.k2)
                  = GroupMapLocaleGet(tree, last'.k1, last'.k2)
             /\ tree' = tree]_vars

\* An add of a locale mapping under an existing group map, naming a locale
\* the registry does not hold, has just raised.
C8_Witness ==
    /\ last.op = "ldap_group_map_locale_add"
    /\ last.status = "UcscOperationError"
    /\ GroupMapGet(tree, last.k1) # None
    /\ last.k2 \notin locales
    /\ GroupMapLocaleGet(tree, last.k1, last.k2) = None

(***************************************************************************)
(* C9: ldap_provider_group_rules_configure, ldap_group_map_role_add,       *)
(* ldap_group_map_locale_add and ldap_provider_group_provider_add raise    *)
(* UcscOperationError when the parent (the provider, the group map, the    *)
(* provider group) does not exist; they then add no object and issue no    *)
(* add_mo or commit.                                                       *)
(***************************************************************************)
ParentOf(op, t, k1) ==
    CASE op = "ldap_provider_group_rules_configure" -> ProviderGet(t, k1)
      [] op = "ldap_group_map_role_add" -> GroupMapGet(t, k1)
      [] op = "ldap_group_map_locale_add" -> GroupMapGet(t, k1)
      [] op = "ldap_provider_group_provider_add" -> ProviderGroupGet(t, k1)

ChildCreateOps ==
    {"ldap_provider_group_rules_configure", "ldap_group_map_role_add",
     "ldap_group_map_locale_add", "ldap_provider_group_provider_add"}

C9_ParentMissing ==
    [][\A op \in ChildCreateOps :
          (last'.op = op /\ ParentOf(op, tree, last'.k1) = None)
             => /\ last'.status = "UcscOperationError"
                /\ Issued(last') \cap Mutators = {}
                /\ tree' = tree /\ to_commit' = to_commit]_vars

\* A role add under a group map that does not exist has just raised, in a
\* tree that holds other objects.
C9_Witness ==
    /\ last.op = "ldap_group_map_role_add"
    /\ GroupMapGet(tree, last.k1) = None
    /\ last.status = "UcscOperationError"
    /\ Cardinality(DOMAIN tree) > 1

(***************************************************************************)
(* C10: no get and no exists raises: each ends normally in every state of  *)
(* the tree, and when the object is absent get returns the empty result    *)
(* and exists returns (false, none).                                       *)
(***************************************************************************)
C10_GetExistsNeverRaise ==
    \A fam \in Families :
        /\ last.op = GetOp[fam]
             => /\ last.status = "ok"
                /\ FamilyGet(fam, tree, last.k1, last.k2) = None
                     => last.ret = None
        /\ last.op = ExistsOp[fam]
             => /\ last.status = "ok"
                /\ FamilyGet(fam, tree, last.k1, last.k2) = None
                     => (~last.flag /\ last.ret = None)

\* A get of a locale mapping that is absent under an existing group map
\* has just returned the empty result.
C10_Witness ==
    /\ last.op = "ldap_group_map_locale_get"
    /\ GroupMapGet(tree, last.k1) # None
    /\ GroupMapLocaleGet(tree, last.k1, last.k2) = None
    /\ last.status = "ok"
    /\ last.ret = None

(***************************************************************************)
(* C11: in every reachable state, every ProviderRef under a provider group *)
(* names an LdapProvider that is in the tree.                              *)
(***************************************************************************)
C11_RefsNameExistingProviders ==
    \A d \in DOMAIN tree :
        tree[d].cls = "AaaProviderRef"
            => ProviderGet(tree, tree[d].props.name) # None

(***************************************************************************)
(* C11, amended: a ProviderRef appears under a provider group only through *)
(* ldap_provider_group_provider_add and only while the LdapProvider of its *)
(* name is in the tree; a reference loses its provider only through        *)
(* ldap_provider_delete of that name, which leaves the reference in place. *)
(***************************************************************************)
C11_RefAddedWhileProviderExists ==
    [][\A g \in ProviderGroupNames, n \in ProviderNames :
          /\ (/\ ProviderGroupProviderGet(tree, g, n) = None
              /\ ProviderGroupProviderGet(tree', g, n) # None)
                => /\ last'.op = "ldap_provider_group_provider_add"
                   /\ last'.k1 = g /\ last'.k2 = n
                   /\ ProviderGet(tree', n) # None
          /\ (/\ ProviderGroupProviderGet(tree', g, n) # None
              /\ ProviderGet(tree, n) # None
              /\ ProviderGet(tree', n) = None)
                => /\ last'.op = "ldap_provider_delete"
                   /\ last'.k1 = n
                   /\ ProviderGroupProviderGet(tree', g, n)
                        = ProviderGroupProviderGet(tree, g, n)]_vars

\* A provider has just been deleted while a group holds a reference to it.
C11_Witness ==
    /\ last.op = "ldap_provider_delete"
    /\ last.status = "ok"
    /\ \E g \in ProviderGroupNames :
          ProviderGroupProviderGet(tree, g, last.k1) # None

(***************************************************************************)
(* C12: ldap_provider_group_provider_modify and                            *)
(* ldap_provider_group_provider_remove succeed whenever the reference      *)
(* provider-ref-<name> is under the group, whether or not the LdapProvider *)
(* it names is still in the tree, and raise UcscOperationError exactly     *)
(* when the reference is absent.                                           *)
(***************************************************************************)
C12_RefOps ==
    {"ldap_provider_group_provider_modify",
     "ldap_provider_group_provider_remove"}

C12_RefModifyRemoveOnRefOnly ==
    [][last'.op \in C12_RefOps =>
          LET ref == ProviderGroupProviderGet(tree, last'.k1, last'.k2)
          IN /\ ref # None => last'.status = "ok"
             /\ ref = None => last'.status = "UcscOperationError"
             /\ (last'.op = "ldap_provider_group_provider_remove" /\ ref # None)
                  => ProviderGroupProviderGet(tree', last'.k1, last'.k2) = None
             /\ (last'.op = "ldap_provider_group_provider_modify" /\ ref # None)
                  => /\ last'.ret = ProviderGroupProviderGet(tree', last'.k1,
                                                            last'.k2)
                     /\ \A k \in DOMAIN last'.kw :
                           last'.ret.props[k] = last'.kw[k]]_vars

\* A reference whose provider has been deleted has just been removed.
C12_Witness ==
    /\ last.op = "ldap_provider_group_provider_remove"
    /\ last.status = "ok"
    /\ ProviderGroupGet(tree, last.k1) # None
    /\ ProviderGet(tree, last.k2) = None

(***************************************************************************)
(* C13: a provider never has more than one LdapGroupRule child, and after  *)
(* each ldap_provider_group_rules_configure on an existing provider the    *)
(* provider has exactly one, carrying the attributes of that call.         *)
(***************************************************************************)
GroupRulesOf(t, provider_dn) ==
    {d \in DOMAIN t :
        t[d].cls = "AaaLdapGroupRule" /\ t[d].parent = provider_dn}

C13_OneGroupRuleLatestAttrs ==
    [][/\ \A n \in ProviderNames :
             ProviderGet(tree', n) # None
                => Cardinality(GroupRulesOf(tree', ProviderGet(tree', n).dn)) <= 1
       /\ (/\ last'.op = "ldap_provider_group_rules_configure"
           /\ ProviderGet(tree, last'.k1) # None)
             => /\ last'.status = "ok"
                /\ LET rules == GroupRulesOf(tree', ProviderGet(tree', last'.k1).dn)
                   IN /\ Cardinality(rules) = 1
                      /\ \A d \in rules :
                            /\ \A k \in DOMAIN last'.args :
                                  tree'[d].props[k] = last'.args[k]
                            /\ \A k \in DOMAIN last'.kw :
                                  tree'[d].props[k] = last'.kw[k]]_vars

\* A configure has just replaced a group rule whose attributes differed.
C13_Witness ==
    /\ last.op = "ldap_provider_group_rules_configure"
    /\ last.status = "ok"
    /\ last.replaced # None
    /\ last.replaced.props # last.ret.props
    /\ Cardinality(GroupRulesOf(tree, ProviderGet(tree, last.k1).dn)) = 1

(***************************************************************************)
(* C14: when two callers sharing the handle delete the same existing       *)
(* object and both pass the existence check before either submits its      *)
(* remove, neither raises the facade's UcscOperationError: both go on to   *)
(* submit a remove and to commit.  Such an interleaving exists.            *)
(***************************************************************************)
C14_RacingDeletesBothSubmit ==
    \A c \in Callers :
        callers[c].raced =>
            /\ callers[c].status # "UcscOperationError"
            /\ callers[c].mo # None
            /\ callers[c].pc = "idle"
                 => /\ callers[c].status \in {"ok", "RemoteError"}
                    /\ callers[c].calls = <<"query_dn", "remove_mo", "commit">>

\* Both callers have finished a delete of the same object; both passed the
\* check before either submitted its remove, both submitted a remove and
\* committed, and the object is gone.
C14_Witness ==
    /\ \A c \in Callers :
          /\ callers[c].pc = "idle"
          /\ callers[c].raced
          /\ callers[c].op = "ldap_provider_delete"
          /\ callers[c].status = "ok"
          /\ callers[c].calls = <<"query_dn", "remove_mo", "commit">>
    /\ callers["c1"].name = callers["c2"].name
    /\ ProviderGet(tree, callers["c1"].name) = None
====
